---- MODULE Spec2Model ----
(***************************************************************************)
(* Model of the order pipeline:                                            *)
(*   src/lambda/handler.py        lambda_handler, validate, persist,       *)
(*                                maybe_alert (the batch processor)        *)
(*   src/tools/send_test_events.py  send_batch, _send_with_split_on_413    *)
(*                                (the adaptive sender)                    *)
(* The queue, the table and the notification topic are the environment.   *)
(***************************************************************************)
EXTENDS Integers, Sequences, FiniteSets, TLC

\* ------------------------------------------------------------- bounds
MaxMsgs == 2
MaxReceive == 2
MaxEntries == 7
MaxN == 4
MaxBatch == 3

\* ------------------------------------------------- program constants
\* ALERT_AMOUNT, in hundredths: float(os.environ.get("ALERT_AMOUNT", "1500"))
ALERT_AMOUNT == 150000
\* send_batch(..., retry=3, backoff=0.5)
retry == 3

Workers == {"w1", "w2"}
OrderIds == {"o1", "o2"}
Msgs == 1..MaxMsgs

\* --------------------------------------------------------- amounts
\* A decoded amount is an exact decimal (json.loads(..., parse_float=Decimal)).
\* Num(c, e) is the decimal c/100 + e * t, e in {-1, 0, 1}: c counts the
\* hundredths and t is a tail too small for a binary64 to resolve at c/100
\* (1499.99999999999999999 is Num(150000, -1); -1E-400 is Num(0, -1)).
\* NotANumber is a string such as "abc".
Num(c, e) == [kind |-> "num", c |-> c, e |-> e]
NotANumber == [kind |-> "str", c |-> 0, e |-> 0]

\* x >= y on exact decimals
Geq(x, y) == x.c > y.c \/ (x.c = y.c /\ x.e >= y.e)

\* float(x) for a numeric x: the nearest binary64, which rounds the tail away
\* (float(Decimal("-1E-400")) is -0.0, and -0.0 < 0 is false).
FloatOf(x) == Num(x.c, 0)

\* The numbers the store takes: 38 digits, magnitudes from 1E-130; the
\* client's conversion raises on a number outside.
StoreNumber(x) == x.c # 0 \/ x.e = 0

\* -------------------------------------------------------- payloads
Required == <<"order_id", "user_id", "amount", "items">>
RequiredSet == {Required[i] : i \in 1..Len(Required)}

\* keys: the required fields present; items: "list" (a non-empty list),
\* "empty" (an empty list) or "scalar" (not a list); flag: the payload has a
\* boolean leaf (for example "gift": true).
Base(o, a) ==
    [keys |-> RequiredSet, order_id |-> o, amount |-> a, items |-> "list", flag |-> FALSE]

Large == Num(ALERT_AMOUNT, 0)

ValidPayloads ==
    {Base("o1", a) : a \in {Num(ALERT_AMOUNT - 1, 0), Num(ALERT_AMOUNT, -1), Large}}
        \cup {Base("o2", Large)}

\* One payload for each way of being invalid, each with an amount that would
\* alert and the order id of a valid payload.
InvalidPayloads ==
    {[Base("o1", Large) EXCEPT !.keys = RequiredSet \ {k}] : k \in {"order_id", "amount"}}
        \cup {[Base("o1", Large) EXCEPT !.items = "empty"],
              Base("o1", Num(-500, 0)),
              Base("o1", Num(0, -1)),
              Base("o1", NotANumber)}

FlagPayloads == {[Base("o2", Large) EXCEPT !.flag = TRUE]}

\* A message body: text that is not JSON (or no body at all), a JSON value
\* that is not an object, or a JSON object.
Bodies ==
    {[json |-> "invalid", payload |-> Base("o1", Large)],
     [json |-> "array", payload |-> Base("o1", Large)]}
        \cup {[json |-> "object", payload |-> p] :
                p \in ValidPayloads \cup InvalidPayloads \cup FlagPayloads}

\* ------------------------------------------------------------ state
VARIABLES
    SKIP_VALIDATION,  \* configuration flag
    bodies,           \* queue: message id -> body
    qstate,           \* queue: message id -> "visible" | "inflight" | "deleted" | "dead"
    receives,         \* queue: message id -> number of deliveries
    table,            \* store: order id -> stored record or NoRecord
    puts,             \* store: order id -> number of writes that took effect
    alerts,           \* topic: the alert messages published, in order
    now,              \* time.time()
    pc,               \* worker -> position in lambda_handler
    batch,            \* worker -> event["Records"], as message ids
    idx,              \* worker -> index of the record being processed
    failures,         \* worker -> the failures list, as message ids
    cur,              \* worker -> what happened to the record being processed
    log,              \* worker -> what happened to the records processed
    given,            \* send_batch: the entries it was called with, as ids
    entries,          \* send_batch: the entries of the next attempt
    attempt,          \* send_batch: the loop index
    spc,              \* send_batch: position
    stack,            \* _send_with_split_on_413: the calls still to run
    failed,           \* send_batch: the Failed list of the last response
    sleeps,           \* the time.sleep calls, in units of backoff
    requests,         \* transport: the requests of this attempt and their outcomes
    accepted,         \* transport: the entries accepted so far
    reported,         \* transport: the entries reported failed in this attempt
    raisedIds,        \* the ids of the RuntimeError
    main_n,           \* main: n, the number of messages to send
    batch_size,       \* main: batch_size
    main_i,           \* main: the loop index i
    main_entries,     \* main: the entries list, as ids
    sent,             \* main: the sent counter
    mpc,              \* main: position
    submitted         \* the batches main has passed to send_batch, in order

hvars == <<SKIP_VALIDATION, bodies, qstate, receives, table, puts, alerts, now,
           pc, batch, idx, failures, cur, log>>
svars == <<given, entries, attempt, spc, stack, failed, sleeps, requests, accepted,
           reported, raisedIds>>
mvars == <<main_n, batch_size, main_i, main_entries, sent, mpc, submitted>>
vars == <<hvars, svars, mvars>>

NoRecord == [status |-> "none"]
NoCur == [msg |-> 0, exc |-> "none", step |-> "none", put |-> "none",
          pubs |-> 0, published |-> FALSE]

\* ------------------------------------------------------- the pipeline
\* json.loads(record.get("body", "")) and payload.get('order_id') on the result
DecodeExc(body) ==
    CASE body.json = "invalid" -> "JSONDecodeError"
      [] body.json = "array" -> "AttributeError"
      [] OTHER -> "none"

\* validate: the message of the ValueError, or "ok"
MissingAt(p) == {i \in 1..Len(Required) : Required[i] \notin p.keys}
FirstMissing(p) == Required[CHOOSE i \in MissingAt(p) : \A j \in MissingAt(p) : i <= j]

validate(p) ==
    IF MissingAt(p) # {} THEN "Missing field: " \o FirstMissing(p)
    ELSE IF p.items # "list" THEN "items must be a non-empty list"
    ELSE IF p.amount.kind = "str" THEN "could not convert string to float"
    ELSE IF ~Geq(FloatOf(p.amount), Num(0, 0)) THEN "amount must be non-negative"
    ELSE "ok"

ValidateExc(p) == IF validate(p) = "ok" THEN "none" ELSE "ValueError"

\* _to_decimal: isinstance(True, int) holds, and Decimal("True") raises
ToDecimalExc(p) == IF p.flag THEN "InvalidOperation" ELSE "none"

\* table.put_item(Item=..., ConditionExpression="attribute_not_exists(order_id)")
\* The store may fail any call (throttling, unavailability); an item with no
\* key is refused by the store, and a number the store does not take makes
\* the client's conversion raise.
Malformed(p) ==
    IF "order_id" \notin p.keys THEN "ClientError"
    ELSE IF "amount" \in p.keys /\ p.amount.kind = "num" /\ ~StoreNumber(p.amount)
    THEN "Underflow"
    ELSE "none"

\* put_item without the ConditionExpression: the write replaces the record
PutItemOutcomes_Unconditional(p, tbl) ==
    IF Malformed(p) # "none" THEN {Malformed(p)} ELSE {"ClientError", "ok"}

PutItemOutcomes(p, tbl) ==
    IF Malformed(p) # "none" THEN {Malformed(p)}
    ELSE {"ClientError"} \cup
         (IF tbl[p.order_id] # NoRecord THEN {"ConditionalCheckFailedException"}
                                        ELSE {"ok"})

StoredRecord(p, t) ==
    [status |-> "OK", ts |-> t, order_id |-> p.order_id, amount |-> p.amount,
     keys |-> p.keys, items |-> p.items]

\* persist with a bare except around put_item
PersistExc_SwallowAll(outcome) == "none"

\* persist without the except clause for the duplicate outcome
PersistExc_NoAbsorb(outcome) == IF outcome = "ok" THEN "none" ELSE outcome

\* persist: the exception it lets out for an outcome of put_item
PersistExc(outcome) ==
    IF outcome \in {"ok", "ConditionalCheckFailedException"} THEN "none" ELSE outcome

\* maybe_alert: amt, with the sentinel -1.0 when float() raises
AlertAmt(p) ==
    IF "amount" \notin p.keys \/ p.amount.kind = "str" THEN Num(-100, 0)
    ELSE FloatOf(p.amount)

ShouldPublish(p) == Geq(AlertAmt(p), Num(ALERT_AMOUNT, 0))

AlertMessage(p, t) ==
    [event |-> "LARGE_ORDER", order_id |-> p.order_id, amount |-> AlertAmt(p), ts |-> t]

\* lambda_handler's except clauses
ExceptionClasses ==
    {"JSONDecodeError", "AttributeError", "ValueError", "InvalidOperation",
     "Underflow", "ClientError", "ConditionalCheckFailedException"}

\* the duplicate clause widened to every ClientError
HandlerCatch_ClientErrorIgnored(exc) ==
    IF exc \in {"ConditionalCheckFailedException", "ClientError"} THEN "ignore"
    ELSE IF exc \in ExceptionClasses THEN "fail"
    ELSE "propagate"

\* the last clause narrowed to except ValueError
HandlerCatch_ValueErrorOnly(exc) ==
    IF exc = "ConditionalCheckFailedException" THEN "ignore"
    ELSE IF exc \in {"ValueError", "JSONDecodeError"} THEN "fail"
    ELSE "propagate"

HandlerCatch(exc) ==
    IF exc = "ConditionalCheckFailedException" THEN "ignore"
    ELSE IF exc \in ExceptionClasses THEN "fail"
    ELSE "propagate"

\* ------------------------------------------------------------ actions
CurMsg(w) == batch[w][idx[w]]
CurPayload(w) == bodies[CurMsg(w)].payload

\* The batch as a sequence, in ascending message id.
RECURSIVE SeqOf(_)
SeqOf(S) ==
    IF S = {} THEN <<>>
    ELSE LET m == CHOOSE x \in S : \A y \in S : x <= y
         IN <<m>> \o SeqOf(S \ {m})

Visible == {m \in Msgs : qstate[m] = "visible"}

\* The queue delivers the batch S of visible messages to an idle worker.
Invoke(w, S) ==
    /\ pc[w] = "idle"
    /\ S # {}
    /\ S \subseteq Visible
    /\ batch' = [batch EXCEPT ![w] = SeqOf(S)]
    /\ qstate' = [m \in Msgs |-> IF m \in S THEN "inflight" ELSE qstate[m]]
    /\ receives' = [m \in Msgs |-> IF m \in S THEN receives[m] + 1 ELSE receives[m]]
    /\ idx' = [idx EXCEPT ![w] = 1]
    /\ failures' = [failures EXCEPT ![w] = <<>>]
    /\ log' = [log EXCEPT ![w] = <<>>]
    /\ cur' = [cur EXCEPT ![w] = NoCur]
    /\ pc' = [pc EXCEPT ![w] = "decode"]
    /\ now' = now + 1
    /\ UNCHANGED <<SKIP_VALIDATION, bodies, table, puts, alerts, svars, mvars>>

\* The record's processing ends with exception exc ("none": it ended normally).
EndRecord(w, c, exc) ==
    LET how == IF exc = "none" THEN "ignore" ELSE HandlerCatch(exc)
        done == [c EXCEPT !.exc = exc]
    IN /\ log' = [log EXCEPT ![w] = Append(@, done)]
       /\ cur' = [cur EXCEPT ![w] = NoCur]
       /\ failures' = [failures EXCEPT ![w] =
                          IF how = "fail" THEN Append(@, CurMsg(w)) ELSE @]
       /\ IF how = "propagate"
          THEN pc' = [pc EXCEPT ![w] = "raised"] /\ idx' = idx
          ELSE pc' = [pc EXCEPT ![w] = "decode"] /\ idx' = [idx EXCEPT ![w] = @ + 1]

\* the step after a decoded payload without the SKIP_VALIDATION test
AfterDecode_AlwaysValidate(skip) == "validate"

\* if not SKIP_VALIDATION: validate(payload)
AfterDecode(skip) == IF skip THEN "persist" ELSE "validate"

Decode(w) ==
    /\ pc[w] = "decode"
    /\ idx[w] <= Len(batch[w])
    /\ LET exc == DecodeExc(bodies[CurMsg(w)])
           c == [NoCur EXCEPT !.msg = CurMsg(w), !.step = "decode"]
       IN IF exc # "none"
          THEN EndRecord(w, c, exc)
          ELSE /\ cur' = [cur EXCEPT ![w] = c]
               /\ pc' = [pc EXCEPT ![w] = AfterDecode(SKIP_VALIDATION)]
               /\ UNCHANGED <<log, failures, idx>>
    /\ UNCHANGED <<SKIP_VALIDATION, bodies, qstate, receives, table, puts, alerts, now, batch, svars, mvars>>

Validate(w) ==
    /\ pc[w] = "validate"
    /\ LET exc == ValidateExc(CurPayload(w))
           c == [cur[w] EXCEPT !.step = "validate"]
       IN IF exc # "none"
          THEN EndRecord(w, c, exc)
          ELSE /\ cur' = [cur EXCEPT ![w] = c]
               /\ pc' = [pc EXCEPT ![w] = "persist"]
               /\ UNCHANGED <<log, failures, idx>>
    /\ UNCHANGED <<SKIP_VALIDATION, bodies, qstate, receives, table, puts, alerts, now, batch, svars, mvars>>

Persist(w) ==
    /\ pc[w] = "persist"
    /\ LET p == CurPayload(w)
           c == [cur[w] EXCEPT !.step = "persist"]
       IN IF ToDecimalExc(p) # "none"
          THEN EndRecord(w, c, ToDecimalExc(p)) /\ UNCHANGED <<table, puts>>
          ELSE \E outcome \in PutItemOutcomes(p, table) :
                /\ table' = IF outcome = "ok"
                            THEN [table EXCEPT ![p.order_id] = StoredRecord(p, now)]
                            ELSE table
                /\ puts' = IF outcome = "ok"
                           THEN [puts EXCEPT ![p.order_id] = @ + 1]
                           ELSE puts
                /\ IF PersistExc(outcome) # "none"
                   THEN EndRecord(w, [c EXCEPT !.put = outcome], PersistExc(outcome))
                   ELSE /\ cur' = [cur EXCEPT ![w] = [c EXCEPT !.put = outcome]]
                        /\ pc' = [pc EXCEPT ![w] = "alert"]
                        /\ UNCHANGED <<log, failures, idx>>
    /\ UNCHANGED <<SKIP_VALIDATION, bodies, qstate, receives, alerts, now, batch, svars, mvars>>

Alert(w) ==
    /\ pc[w] = "alert"
    /\ LET p == CurPayload(w)
           c == [cur[w] EXCEPT !.step = "alert"]
       IN IF ~ShouldPublish(p)
          THEN EndRecord(w, c, "none") /\ alerts' = alerts
          ELSE \E outcome \in {"ok", "ClientError"} :
                /\ alerts' = IF outcome = "ok"
                             THEN Append(alerts, AlertMessage(p, now)) ELSE alerts
                /\ EndRecord(w, [c EXCEPT !.pubs = @ + 1, !.published = (outcome = "ok")],
                             IF outcome = "ok" THEN "none" ELSE outcome)
    /\ UNCHANGED <<SKIP_VALIDATION, bodies, qstate, receives, table, puts, now, batch, svars, mvars>>

\* return {"batchItemFailures": failures}
Return(w) ==
    /\ pc[w] = "decode"
    /\ idx[w] > Len(batch[w])
    /\ pc' = [pc EXCEPT ![w] = "returned"]
    /\ UNCHANGED <<SKIP_VALIDATION, bodies, qstate, receives, table, puts, alerts, now,
                   batch, idx, failures, cur, log, svars, mvars>>

\* The queue acts on the report: the messages named in it become visible
\* again (or are dead-lettered after MaxReceive deliveries), the others are
\* deleted.  After a raise the whole batch is due again.
InSeq(x, s) == \E i \in 1..Len(s) : s[i] = x

Settle(w) ==
    /\ pc[w] \in {"returned", "raised"}
    /\ qstate' = [m \in Msgs |->
                    IF ~InSeq(m, batch[w]) THEN qstate[m]
                    ELSE IF pc[w] = "returned" /\ ~InSeq(m, failures[w]) THEN "deleted"
                    ELSE IF receives[m] >= MaxReceive THEN "dead"
                    ELSE "visible"]
    /\ pc' = [pc EXCEPT ![w] = "idle"]
    /\ batch' = [batch EXCEPT ![w] = <<>>]
    /\ failures' = [failures EXCEPT ![w] = <<>>]
    /\ log' = [log EXCEPT ![w] = <<>>]
    /\ idx' = [idx EXCEPT ![w] = 1]
    /\ UNCHANGED <<SKIP_VALIDATION, bodies, receives, table, puts, alerts, now, cur, svars, mvars>>

\* ------------------------------------------------ the batch processor
\* What the records processed so far were, by position in the batch.
Processed(w) == 1..Len(log[w])
PayloadOf(m) == bodies[m].payload
IsObject(m) == bodies[m].json = "object"

\* An error for a record: an exception other than the duplicate outcome.
Errored(e) == e.exc \notin {"none", "ConditionalCheckFailedException"}

RECURSIVE ErroredMsgs(_)
ErroredMsgs(lg) ==
    IF lg = <<>> THEN <<>>
    ELSE (IF Errored(Head(lg)) THEN <<Head(lg).msg>> ELSE <<>>) \o ErroredMsgs(Tail(lg))

\* C1: the failures list names a record exactly when decoding, validate,
\* persist or maybe_alert raised an error for it (a duplicate is no error):
\* at every point it lists, in order and once each, the records processed so
\* far that raised, and at the return every record of the batch is accounted
\* for, so K failed records of N give K identifiers.
C1_FailuresExact ==
    \A w \in Workers :
        /\ failures[w] = ErroredMsgs(log[w])
        /\ pc[w] = "returned" =>
            /\ Len(log[w]) = Len(batch[w])
            /\ \A i \in Processed(w) : log[w][i].msg = batch[w][i]
            /\ Cardinality({i \in Processed(w) : Errored(log[w][i])}) = Len(failures[w])

C1_Witness ==
    \E w \in Workers :
        /\ pc[w] = "returned"
        /\ Len(batch[w]) = 2
        /\ Errored(log[w][1])
        /\ log[w][2].put = "ConditionalCheckFailedException"
        /\ failures[w] = <<batch[w][1]>>

\* C2: after the return, every record absent from the failures list has a
\* stored record under its order identifier, with the status marker set.
C2_AckedIsStored ==
    \A w \in Workers :
        pc[w] = "returned" =>
            \A i \in 1..Len(batch[w]) :
                ~InSeq(batch[w][i], failures[w]) =>
                    /\ IsObject(batch[w][i])
                    /\ "order_id" \in PayloadOf(batch[w][i]).keys
                    /\ table[PayloadOf(batch[w][i]).order_id].status = "OK"
                    /\ table[PayloadOf(batch[w][i]).order_id].order_id
                         = PayloadOf(batch[w][i]).order_id

C2_Witness ==
    \E w \in Workers :
        /\ pc[w] = "returned"
        /\ Len(batch[w]) = 2
        /\ failures[w] = <<batch[w][2]>>
        /\ log[w][1].put = "ok"
        /\ table[PayloadOf(batch[w][1]).order_id].ts = now

\* C3: lambda_handler never raises and never stops early: no exception of
\* any step leaves the handler, and it returns only after every record of
\* the batch has been taken through the pipeline, in turn.
C3_NeverRaises ==
    \A w \in Workers :
        /\ pc[w] # "raised"
        /\ Len(log[w]) = idx[w] - 1
        /\ pc[w] = "returned" => idx[w] = Len(batch[w]) + 1
        /\ \A i \in Processed(w) :
            /\ log[w][i].msg = batch[w][i]
            /\ log[w][i].step # "none"

\* A store error on the first record and a publish error on the second, and
\* the third step of the second record was still run.
C3_Witness ==
    \E w \in Workers :
        /\ pc[w] = "returned"
        /\ Len(batch[w]) = 2
        /\ log[w][1].exc = "ClientError" /\ log[w][1].step = "persist"
        /\ log[w][2].exc = "ClientError" /\ log[w][2].step = "alert"

\* C4: persisting the same order identifier twice leaves exactly one stored
\* record (one write took effect, the record is the first one's), and the
\* duplicate outcome is absorbed by persist: the record goes on to the alert
\* step and is reported failed only if the publish failed.
C4_DuplicateAbsorbed ==
    /\ \A o \in OrderIds :
        /\ puts[o] <= 1
        /\ puts[o] = 1 <=> table[o] # NoRecord
    /\ \A w \in Workers : \A i \in Processed(w) :
        LET e == log[w][i]
        IN /\ e.put = "ok" => table[PayloadOf(e.msg).order_id] # NoRecord
           /\ e.put = "ConditionalCheckFailedException" =>
                /\ table[PayloadOf(e.msg).order_id] # NoRecord
                /\ puts[PayloadOf(e.msg).order_id] = 1
                /\ e.step = "alert"
                /\ e.exc = "none" \/ (e.pubs = 1 /\ ~e.published)
                /\ e.exc = "none" => ~InSeq(e.msg, failures[w])

\* Twice in one batch: the first write took effect, the second was absorbed,
\* and neither record is reported.
C4_Witness ==
    \E w \in Workers :
        /\ pc[w] = "returned"
        /\ Len(batch[w]) = 2
        /\ log[w][1].put = "ok"
        /\ log[w][2].put = "ConditionalCheckFailedException"
        /\ PayloadOf(batch[w][1]).order_id = PayloadOf(batch[w][2]).order_id
        /\ failures[w] = <<>>

\* C9: for every record that reached the alert step, maybe_alert published
\* (called publish) exactly when the payload's amount >= the threshold, and
\* called publish at most once.
HasAmount(p) == "amount" \in p.keys /\ p.amount.kind = "num"

C9_AlertIffAtLeastThreshold ==
    \A w \in Workers : \A i \in Processed(w) :
        LET e == log[w][i]
            p == PayloadOf(e.msg)
        IN e.step = "alert" =>
            /\ e.pubs <= 1
            /\ e.pubs = 1 <=> (HasAmount(p) /\ Geq(p.amount, Num(ALERT_AMOUNT, 0)))

\* C10: with validation on, a payload missing a required field, with a
\* negative amount or with empty items is rejected by validate and reported,
\* with no store write and no publish; and the step that rejects it changes
\* nothing another message's processing reads (the table, the topic).
InvalidPayload(p) ==
    \/ RequiredSet \ p.keys # {}
    \/ p.items = "empty"
    \/ p.amount.kind = "num" /\ ~Geq(p.amount, Num(0, 0))

C10_Rejected ==
    \A w \in Workers : \A i \in Processed(w) :
        LET e == log[w][i]
        IN (~SKIP_VALIDATION /\ IsObject(e.msg) /\ InvalidPayload(PayloadOf(e.msg))) =>
            /\ e.step = "validate"
            /\ e.exc = "ValueError"
            /\ e.put = "none"
            /\ e.pubs = 0
            /\ InSeq(e.msg, failures[w])

C10_RejectStep ==
    \A w \in Workers :
        (/\ pc[w] = "validate"
         /\ InvalidPayload(CurPayload(w))
         /\ pc'[w] # pc[w]) =>
            /\ table' = table
            /\ puts' = puts
            /\ alerts' = alerts
            /\ failures'[w] = Append(failures[w], CurMsg(w))
            /\ pc'[w] = "decode"
            /\ idx'[w] = idx[w] + 1

C10_InvalidIsolated == []C10_Rejected /\ [][C10_RejectStep]_vars

\* C11: a stored record is created once and never changes: no step modifies
\* or deletes the fields, timestamp or status of a record that is in the
\* table, whatever message is processed.
C11_RecordStep ==
    \A o \in OrderIds : table[o] # NoRecord => table'[o] = table[o]

C11_RecordImmutable == [][C11_RecordStep]_vars

\* A redelivered message with another amount met the duplicate outcome, and
\* the record is still the one written in an earlier invocation.
C11_Witness ==
    \E w \in Workers : \E i \in Processed(w) :
        LET e == log[w][i]
            r == table[PayloadOf(e.msg).order_id]
        IN /\ e.put = "ConditionalCheckFailedException"
           /\ r # NoRecord
           /\ r.amount # PayloadOf(e.msg).amount
           /\ r.ts < now
           /\ receives[e.msg] = 2

\* C12: with invocations interleaved at their store calls, messages with
\* the same order identifier give one stored record: one conditional write
\* takes effect, every other one meets the duplicate outcome and goes on to
\* the alert step, and none is reported failed unless its publish failed.
Attempts(w) == {log[w][i] : i \in Processed(w)} \cup {cur[w]}

C12_OneWriteWins ==
    /\ \A o \in OrderIds :
        /\ puts[o] <= 1
        /\ puts[o] = 1 <=> table[o] # NoRecord
    /\ \A w \in Workers : \A e \in Attempts(w) :
        /\ e.put = "ConditionalCheckFailedException" =>
            /\ puts[PayloadOf(e.msg).order_id] = 1
            /\ e.step \in {"persist", "alert"}
            /\ e.exc = "none" \/ (e.step = "alert" /\ e.pubs = 1 /\ ~e.published)
            /\ (e # cur[w] /\ e.exc = "none") => ~InSeq(e.msg, failures[w])
        /\ (e.put = "ConditionalCheckFailedException" /\ e # cur[w]) => e.step = "alert"

\* Two invocations in flight with the same order identifier: one wrote the
\* record, the other met the duplicate outcome, and both returned no failure.
C12_Witness ==
    /\ pc["w1"] = "returned" /\ pc["w2"] = "returned"
    /\ Len(batch["w1"]) = 1 /\ Len(batch["w2"]) = 1
    /\ PayloadOf(batch["w1"][1]).order_id = PayloadOf(batch["w2"][1]).order_id
    /\ log["w1"][1].put = "ConditionalCheckFailedException"
    /\ log["w2"][1].put = "ok"
    /\ failures["w1"] = <<>> /\ failures["w2"] = <<>>

\* C13: _to_decimal converts a payload that holds a boolean field without
\* error (the boolean is left as it is): no record ends with the conversion
\* raising.
C13_BooleanConverted ==
    \A w \in Workers : \A i \in Processed(w) :
        (IsObject(log[w][i].msg) /\ PayloadOf(log[w][i].msg).flag)
            => log[w][i].exc # "InvalidOperation"

\* C14: alerts are not deduplicated across deliveries. A record whose publish
\* failed is reported failed while its stored record stays; a redelivered
\* message whose record is already stored is absorbed as a duplicate, goes on
\* to the alert step and, at or above the threshold, is published again.
C14_AlertNotDeduplicated ==
    \A w \in Workers : \A i \in Processed(w) :
        LET e == log[w][i]
            p == PayloadOf(e.msg)
        IN /\ (e.step = "alert" /\ e.pubs = 1 /\ ~e.published) =>
                /\ InSeq(e.msg, failures[w])
                /\ table[p.order_id] # NoRecord
           /\ (receives[e.msg] >= 2 /\ e.put = "ConditionalCheckFailedException") =>
                /\ e.step = "alert"
                /\ ShouldPublish(p) => e.pubs = 1
                /\ e.published => \E k \in 1..Len(alerts) :
                        alerts[k].order_id = p.order_id /\ alerts[k].ts = now

\* A redelivered message was absorbed as a duplicate and published, and the
\* same order identifier now has two alerts.
C14_Witness ==
    \E w \in Workers : \E i \in Processed(w) :
        LET e == log[w][i]
        IN /\ receives[e.msg] = 2
           /\ e.put = "ConditionalCheckFailedException"
           /\ e.published
           /\ table[PayloadOf(e.msg).order_id].ts < now
           /\ \E j, k \in 1..Len(alerts) :
                /\ j < k
                /\ alerts[j].order_id = PayloadOf(e.msg).order_id
                /\ alerts[k].order_id = PayloadOf(e.msg).order_id

\* C16: validate applies its checks in a fixed order and stops at the first
\* that fails: the required fields in the order order_id, user_id, amount,
\* items, then items being a non-empty list, then the amount being
\* non-negative; a payload failing none of them is accepted.
C16_Verdict(p) ==
    IF \E k \in RequiredSet : k \notin p.keys
    THEN "Missing field: " \o
         Required[CHOOSE i \in 1..Len(Required) :
                    /\ Required[i] \notin p.keys
                    /\ \A j \in 1..(i - 1) : Required[j] \in p.keys]
    ELSE IF p.items # "list" THEN "items must be a non-empty list"
    ELSE IF ~Geq(p.amount, Num(0, 0)) THEN "amount must be non-negative"
    ELSE "ok"

C16_FirstFailingCheck ==
    ~SKIP_VALIDATION =>
        \A w \in Workers : \A i \in Processed(w) :
            LET e == log[w][i]
                p == PayloadOf(e.msg)
            IN (IsObject(e.msg) /\ p.amount.kind = "num") =>
                /\ validate(p) = C16_Verdict(p)
                /\ (e.step = "validate" /\ e.exc = "ValueError") <=> C16_Verdict(p) # "ok"

\* C17: with SKIP_VALIDATION on, validate is not called: no record ends at
\* the validate step, and a payload validate would reject goes to persist and
\* maybe_alert and is not reported failed when the store takes it and no
\* publish fails. With SKIP_VALIDATION off, a payload reaches persist only
\* after validate accepted it.
C17_SkipValidation ==
    \A w \in Workers :
        /\ pc[w] = "validate" => ~SKIP_VALIDATION
        /\ (~SKIP_VALIDATION /\ pc[w] \in {"persist", "alert"}) =>
                validate(CurPayload(w)) = "ok"
        /\ \A i \in Processed(w) :
            LET e == log[w][i]
                p == PayloadOf(e.msg)
            IN IsObject(e.msg) =>
                /\ SKIP_VALIDATION =>
                    /\ e.step \in {"persist", "alert"}
                    /\ e.exc # "ValueError"
                    /\ e.put = "ok" =>
                        /\ table[p.order_id] # NoRecord
                        /\ e.step = "alert"
                        /\ e.exc = "none" => ~InSeq(e.msg, failures[w])
                /\ (~SKIP_VALIDATION /\ e.step # "validate") => validate(p) = "ok"

\* With SKIP_VALIDATION on, a payload with a negative amount was stored and
\* its message is not reported failed.
C17_Witness ==
    /\ SKIP_VALIDATION
    /\ \E w \in Workers : \E i \in Processed(w) :
        LET e == log[w][i]
            p == PayloadOf(e.msg)
        IN /\ IsObject(e.msg)
           /\ validate(p) = "amount must be non-negative"
           /\ e.put = "ok"
           /\ e.exc = "none"
           /\ table[p.order_id].amount = p.amount
           /\ pc[w] = "returned"
           /\ ~InSeq(e.msg, failures[w])

\* C18: a store error other than the duplicate outcome makes persist fail:
\* the message is in batchItemFailures, the call writes no record, and
\* nothing is published in that processing.
StoreErrors == {"ClientError", "Underflow"}

C18_Failed ==
    \A w \in Workers : \A i \in Processed(w) :
        LET e == log[w][i]
        IN e.put \in StoreErrors =>
            /\ e.step = "persist"
            /\ e.exc = e.put
            /\ e.pubs = 0
            /\ InSeq(e.msg, failures[w])

C18_FailStep ==
    \A w \in Workers :
        (/\ pc[w] = "persist"
         /\ Len(log'[w]) = Len(log[w]) + 1
         /\ log'[w][Len(log'[w])].put \in StoreErrors) =>
            /\ table' = table
            /\ puts' = puts
            /\ alerts' = alerts
            /\ failures'[w] = Append(failures[w], CurMsg(w))

C18_StoreErrorFails == []C18_Failed /\ [][C18_FailStep]_vars

\* A store error on a valid payload with no record yet: reported failed,
\* nothing stored.
C18_Witness ==
    \E w \in Workers : \E i \in Processed(w) :
        LET e == log[w][i]
        IN /\ IsObject(e.msg)
           /\ validate(PayloadOf(e.msg)) = "ok"
           /\ e.put = "ClientError"
           /\ InSeq(e.msg, failures[w])
           /\ table[PayloadOf(e.msg).order_id] = NoRecord
           /\ alerts = <<>>

\* --------------------------------------------------------- the sender
SetOf(s) == {s[i] : i \in 1..Len(s)}

\* The entries of F in the order they have in sub.
RECURSIVE Restrict(_, _)
Restrict(sub, F) ==
    IF sub = <<>> THEN <<>>
    ELSE (IF Head(sub) \in F THEN <<Head(sub)>> ELSE <<>>) \o Restrict(Tail(sub), F)

RECURSIVE Pow2(_)
Pow2(k) == IF k = 0 THEN 1 ELSE 2 * Pow2(k - 1)

\* the batch cut after its first entry
Mid_First(sub) == 1

\* the batch cut after its last entry: a first half that is the whole batch
Mid_Whole(sub) == Len(sub)

\* mid = len(sub) // 2; sub[:mid]; sub[mid:]
Mid(sub) == Len(sub) \div 2
FirstHalf(sub) == SubSeq(sub, 1, Mid(sub))
SecondHalf(sub) == SubSeq(sub, Mid(sub) + 1, Len(sub))

\* A call of _send_with_split_on_413 still to run: its batch, and whether
\* its return value is the one send_batch receives.
Frame(sub, ret) == [sub |-> sub, ret |-> ret]

\* The calls that replace a call rejected as too large: the first half,
\* whose return value is dropped, then the second half, whose return value
\* is returned.
SplitFrames(f) == <<Frame(FirstHalf(f.sub), FALSE), Frame(SecondHalf(f.sub), f.ret)>>

\* The value send_batch receives when the call f returns the Failed list F.
Returned(f, F, old) == IF f.ret THEN Restrict(f.sub, F) ELSE old

\* entries = [id_to_entry[f["Id"]] for f in failed if f.get("Id") in id_to_entry]
NextEntries(ents, fl) == SelectSeq(fl, LAMBDA id : id \in SetOf(ents))

\* time.sleep(backoff * (2 ** attempt)), in units of backoff
Backoff(k) == Pow2(k)

\* for attempt in range(retry): resp = _send_with_split_on_413(sqs, queue_url, entries)
BeginAttempt ==
    /\ spc = "attempt"
    /\ attempt < retry
    /\ stack' = <<Frame(entries, TRUE)>>
    /\ requests' = <<>>
    /\ reported' = {}
    /\ failed' = <<>>
    /\ spc' = "send"
    /\ UNCHANGED <<given, entries, attempt, sleeps, accepted, raisedIds, hvars, mvars>>

\* sqs.send_message_batch answers: the entries of F failed, the others are accepted.
SendAnswered ==
    /\ spc = "send"
    /\ LET f == Head(stack)
       IN \E F \in SUBSET SetOf(f.sub) :
            /\ requests' = Append(requests, [sub |-> f.sub, out |-> "ok"])
            /\ accepted' = accepted \cup (SetOf(f.sub) \ F)
            /\ reported' = reported \cup F
            /\ failed' = Returned(f, F, failed)
            /\ stack' = Tail(stack)
            /\ spc' = IF Tail(stack) = <<>> THEN "inspect" ELSE "send"
    /\ UNCHANGED <<given, entries, attempt, sleeps, raisedIds, hvars, mvars>>

\* sqs.send_message_batch raises the size error (413, RequestEntityTooLarge).
SendTooLarge ==
    /\ spc = "send"
    /\ LET f == Head(stack)
       IN /\ requests' = Append(requests, [sub |-> f.sub, out |-> "413"])
          /\ IF Len(f.sub) = 1
             THEN stack' = <<>> /\ spc' = "error"
             ELSE stack' = SplitFrames(f) \o Tail(stack) /\ spc' = "send"
    /\ UNCHANGED <<given, entries, attempt, failed, sleeps, accepted, reported,
                   raisedIds, hvars, mvars>>

\* sqs.send_message_batch raises another ClientError: it propagates.
SendError ==
    /\ spc = "send"
    /\ requests' = Append(requests, [sub |-> Head(stack).sub, out |-> "error"])
    /\ stack' = <<>>
    /\ spc' = "error"
    /\ UNCHANGED <<given, entries, attempt, failed, sleeps, accepted, reported,
                   raisedIds, hvars, mvars>>

\* failed = resp.get("Failed", []); if not failed: return
ReturnOk ==
    /\ spc = "inspect"
    /\ failed = <<>>
    /\ spc' = "done"
    /\ UNCHANGED <<given, entries, attempt, stack, failed, sleeps, requests, accepted,
                   reported, raisedIds, hvars, mvars>>

\* entries = [the failed ones]; time.sleep(backoff * (2 ** attempt))
Retry ==
    /\ spc = "inspect"
    /\ failed # <<>>
    /\ entries' = NextEntries(entries, failed)
    /\ sleeps' = Append(sleeps, Backoff(attempt))
    /\ attempt' = attempt + 1
    /\ spc' = "attempt"
    /\ UNCHANGED <<given, stack, failed, requests, accepted, reported, raisedIds, hvars, mvars>>

\* raise RuntimeError(f"Failed to send entries after retries: {ids}")
RaiseFatal ==
    /\ spc = "attempt"
    /\ attempt >= retry
    /\ raisedIds' = failed
    /\ spc' = "fatal"
    /\ UNCHANGED <<given, entries, attempt, stack, failed, sleeps, requests, accepted,
                   reported, hvars, mvars>>

\* ------------------------------------------------------------- main
\* the flush test without the last-iteration clause
Flush_FullOnly(ents, k, total, size) == Len(ents) = size

\* if len(entries) == batch_size or i == n - 1:
Flush(ents, k, total, size) == Len(ents) = size \/ k = total - 1

\* for i in range(n): entries.append(entry); on a flush, send_batch(sqs,
\* queue_url, entries) is called. Entry ids are uuid4 values, modelled as
\* the iteration numbers 1..n.
MainAppend ==
    /\ mpc = "loop"
    /\ main_i < main_n
    /\ LET ents == Append(main_entries, main_i + 1)
       IN /\ main_entries' = ents
          /\ IF Flush(ents, main_i, main_n, batch_size)
             THEN /\ mpc' = "sending"
                  /\ submitted' = Append(submitted, ents)
                  /\ given' = ents
                  /\ entries' = ents
                  /\ attempt' = 0
                  /\ spc' = "attempt"
                  /\ stack' = <<>>
                  /\ failed' = <<>>
                  /\ sleeps' = <<>>
                  /\ requests' = <<>>
                  /\ accepted' = {}
                  /\ reported' = {}
                  /\ raisedIds' = <<>>
                  /\ main_i' = main_i
             ELSE /\ mpc' = "loop"
                  /\ main_i' = main_i + 1
                  /\ UNCHANGED <<submitted, svars>>
    /\ UNCHANGED <<main_n, batch_size, sent, hvars>>

\* send_batch returned: sent += len(entries); entries = []
MainReturned ==
    /\ mpc = "sending"
    /\ spc = "done"
    /\ sent' = sent + Len(main_entries)
    /\ main_entries' = <<>>
    /\ main_i' = main_i + 1
    /\ mpc' = "loop"
    /\ UNCHANGED <<main_n, batch_size, submitted, svars, hvars>>

\* send_batch raised (RuntimeError after the retries, or a transport error):
\* the exception leaves main.
MainAbort ==
    /\ mpc = "sending"
    /\ spc \in {"fatal", "error"}
    /\ mpc' = "aborted"
    /\ UNCHANGED <<main_n, batch_size, main_i, main_entries, sent, submitted, svars, hvars>>

\* print(f" Done. Sent {sent} messages.")
MainDone ==
    /\ mpc = "loop"
    /\ main_i = main_n
    /\ mpc' = "done"
    /\ UNCHANGED <<main_n, batch_size, main_i, main_entries, sent, submitted, svars, hvars>>

\* ------------------------------------------------ the adaptive sender
\* The batches of the requests the transport answered, joined in order.
RECURSIVE AnsweredConcat(_)
AnsweredConcat(reqs) ==
    IF reqs = <<>> THEN <<>>
    ELSE (IF Head(reqs).out = "ok" THEN Head(reqs).sub ELSE <<>>)
            \o AnsweredConcat(Tail(reqs))

\* C5: send_batch never silently drops data: when it returns normally every
\* entry it was given has been accepted by the transport.
C5_NoSilentDrop == spc = "done" => SetOf(given) \subseteq accepted

\* C6: a batch of more than one entry rejected as too large is cut at its
\* midpoint, the first half is sent next and the second half after it, by
\* the same rule at every depth; the batches the transport answered are
\* then, in order, exactly the entries of the attempt.  A single entry
\* rejected as too large ends send_batch with the size error and nothing
\* is sent after it.
C6_Bisect ==
    /\ \A i \in 1..Len(requests) :
        LET r == requests[i]
            n == Len(r.sub)
        IN r.out = "413" =>
            IF n = 1
            THEN i = Len(requests) /\ spc = "error" /\ stack = <<>>
            ELSE /\ i < Len(requests) =>
                      requests[i + 1].sub = SubSeq(r.sub, 1, n \div 2)
                 /\ i = Len(requests) =>
                      /\ spc = "send"
                      /\ Len(stack) >= 2
                      /\ stack[1].sub = SubSeq(r.sub, 1, n \div 2)
                      /\ stack[2].sub = SubSeq(r.sub, n \div 2 + 1, n)
                 /\ spc = "inspect" =>
                      \E j \in (i + 1)..Len(requests) :
                          requests[j].sub = SubSeq(r.sub, n \div 2 + 1, n)
    /\ spc = "inspect" => AnsweredConcat(requests) = entries

\* Seven entries cut into 3 + 4, the 4 into 2 + 2, the last 2 into 1 + 1.
C6_Witness ==
    /\ spc = "inspect"
    /\ Len(requests) = 7
    /\ requests[1] = [sub |-> <<1, 2, 3, 4, 5, 6, 7>>, out |-> "413"]
    /\ requests[2] = [sub |-> <<1, 2, 3>>, out |-> "ok"]
    /\ requests[3] = [sub |-> <<4, 5, 6, 7>>, out |-> "413"]
    /\ requests[4] = [sub |-> <<4, 5>>, out |-> "ok"]
    /\ requests[5] = [sub |-> <<6, 7>>, out |-> "413"]
    /\ requests[6] = [sub |-> <<6>>, out |-> "ok"]
    /\ requests[7] = [sub |-> <<7>>, out |-> "ok"]

\* C7: the attempt after one in which entries were reported failed holds
\* exactly those entries and follows a sleep of backoff * 2^k, k the index
\* of the attempt that failed; and when send_batch returns normally the
\* number of accepted entries is the number it was given.
C7_RetryExactlyFailed ==
    /\ (spc = "attempt" /\ attempt > 0) =>
        /\ SetOf(entries) = reported
        /\ Len(sleeps) = attempt
        /\ sleeps[attempt] = Pow2(attempt - 1)
    /\ spc = "done" => Cardinality(accepted) = Len(given)

\* C8: at most retry attempts; when entries are still reported failed after
\* the last one, send_batch raises the fatal error naming exactly them, and
\* does not return normally.
C8_FatalAfterRetryLimit ==
    /\ attempt <= retry
    /\ spc = "fatal" => (attempt = retry /\ SetOf(raisedIds) = reported)
    /\ (spc = "done" /\ attempt = retry - 1) => reported = {}

\* C15: send_batch sleeps after a failed attempt only when another attempt
\* follows: the k-th sleep comes between attempts k and k + 1, so there are
\* fewer sleeps than the retry limit, and none before the fatal error.
C15_SleepOnlyBeforeAttempt == \A k \in 1..Len(sleeps) : k < retry

\* ----------------------------------------------------- specification
SenderIdle ==
    /\ given = <<>>
    /\ entries = <<>>
    /\ attempt = 0
    /\ spc = "idle"
    /\ stack = <<>>
    /\ failed = <<>>
    /\ sleeps = <<>>
    /\ requests = <<>>
    /\ accepted = {}
    /\ reported = {}
    /\ raisedIds = <<>>

MainIdle ==
    /\ main_n = 0
    /\ batch_size = 1
    /\ main_i = 0
    /\ main_entries = <<>>
    /\ sent = 0
    /\ mpc = "idle"
    /\ submitted = <<>>

HandlerStart ==
    /\ qstate = [m \in Msgs |-> "visible"]
    /\ receives = [m \in Msgs |-> 0]
    /\ table = [o \in OrderIds |-> NoRecord]
    /\ puts = [o \in OrderIds |-> 0]
    /\ alerts = <<>>
    /\ now = 0
    /\ pc = [w \in Workers |-> "idle"]
    /\ batch = [w \in Workers |-> <<>>]
    /\ idx = [w \in Workers |-> 1]
    /\ failures = [w \in Workers |-> <<>>]
    /\ cur = [w \in Workers |-> NoCur]
    /\ log = [w \in Workers |-> <<>>]

\* The pipeline: any configuration, any bodies in the queue.
Init ==
    /\ SKIP_VALIDATION \in BOOLEAN
    /\ bodies \in [Msgs -> Bodies]
    /\ HandlerStart
    /\ SenderIdle
    /\ MainIdle

Next ==
    \/ Invoke("w1", Visible)
    \/ Decode("w1")
    \/ Validate("w1")
    \/ Persist("w1")
    \/ Alert("w1")
    \/ Return("w1")
    \/ Settle("w1")

Spec == Init /\ [][Next]_vars

\* Payloads that meet at the store: one order id below the threshold and at
\* it.
RacePayloads == {Base("o1", Num(ALERT_AMOUNT - 1, 0)), Base("o1", Large)}

\* The pipeline with two invocations in flight at once, on valid payloads:
\* the queue hands any batch of deliverable messages to any idle worker, and
\* the workers' steps interleave.
ConcurrentInit ==
    /\ SKIP_VALIDATION = FALSE
    /\ bodies \in [Msgs -> {[json |-> "object", payload |-> p] : p \in RacePayloads}]
    /\ HandlerStart
    /\ SenderIdle
    /\ MainIdle

\* In this specification a message is delivered at most twice: once, and
\* once more after a failure.
Redeliverable == {m \in Visible : receives[m] <= 1}

ConcurrentNext ==
    \E w \in Workers :
        \/ \E S \in SUBSET Redeliverable : Invoke(w, S)
        \/ Decode(w)
        \/ Validate(w)
        \/ Persist(w)
        \/ Alert(w)
        \/ Return(w)
        \/ Settle(w)

SpecConcurrent == ConcurrentInit /\ [][ConcurrentNext]_vars

\* The sender: send_batch called with 1..MaxEntries entries of unique ids.
SenderInit ==
    /\ SKIP_VALIDATION = FALSE
    /\ bodies = [m \in Msgs |-> [json |-> "invalid", payload |-> Base("o1", Large)]]
    /\ HandlerStart
    /\ \E n \in 1..MaxEntries :
        /\ given = [i \in 1..n |-> i]
        /\ entries = [i \in 1..n |-> i]
    /\ attempt = 0
    /\ spc = "attempt"
    /\ stack = <<>>
    /\ failed = <<>>
    /\ sleeps = <<>>
    /\ requests = <<>>
    /\ accepted = {}
    /\ reported = {}
    /\ raisedIds = <<>>
    /\ MainIdle

SenderNext ==
    \/ BeginAttempt
    \/ SendAnswered
    \/ SendTooLarge
    \/ SendError
    \/ ReturnOk
    \/ Retry
    \/ RaiseFatal

SpecSender == SenderInit /\ [][SenderNext]_vars

\* main(queue_url, n, target_kb, batch_size, rate) with n in 0..MaxN and
\* batch_size in 1..MaxBatch, calling send_batch for each batch.
MainInit ==
    /\ SKIP_VALIDATION = FALSE
    /\ bodies = [m \in Msgs |-> [json |-> "invalid", payload |-> Base("o1", Large)]]
    /\ HandlerStart
    /\ SenderIdle
    /\ main_n \in 0..MaxN
    /\ batch_size \in 1..MaxBatch
    /\ main_i = 0
    /\ main_entries = <<>>
    /\ sent = 0
    /\ mpc = "loop"
    /\ submitted = <<>>

MainNext ==
    \/ MainAppend
    \/ MainReturned
    \/ MainAbort
    \/ MainDone
    \/ BeginAttempt
    \/ SendAnswered
    \/ SendTooLarge
    \/ SendError
    \/ ReturnOk
    \/ Retry
    \/ RaiseFatal

SpecMain == MainInit /\ [][MainNext]_vars

\* ------------------------------------------------------- the main loop
\* C20: main submits the entries in sequential batches: the batches
\* submitted so far are consecutive runs of the entries generated, each
\* entry in one batch, each batch of 1..batch_size entries; a batch is
\* submitted only after the send_batch before it returned; after a fatal
\* send_batch nothing more is submitted; and at the normal end sent = n.
RECURSIVE Flatten(_)
Flatten(bs) == IF bs = <<>> THEN <<>> ELSE Head(bs) \o Flatten(Tail(bs))

InCall == mpc \in {"sending", "aborted"}

Generated == main_i + (IF InCall THEN 1 ELSE 0)

C20_Batches ==
    /\ Flatten(submitted) \o (IF InCall THEN <<>> ELSE main_entries)
            = [k \in 1..Generated |-> k]
    /\ \A b \in 1..Len(submitted) :
            Len(submitted[b]) >= 1 /\ Len(submitted[b]) <= batch_size
    /\ mpc = "sending" => (spc # "idle" /\ given = submitted[Len(submitted)])
    /\ (mpc \in {"loop", "done"} /\ submitted # <<>>) => spc = "done"
    /\ mpc = "aborted" => spc \in {"fatal", "error"}
    /\ sent = Len(Flatten(submitted)) - (IF InCall THEN Len(main_entries) ELSE 0)
    /\ mpc = "done" => (sent = main_n /\ Flatten(submitted) = [k \in 1..main_n |-> k])

C20_Step ==
    /\ submitted' # submitted =>
        /\ mpc = "loop"
        /\ submitted = <<>> \/ spc = "done"
        /\ Len(submitted') = Len(submitted) + 1
    /\ (mpc = "aborted" \/ spc \in {"fatal", "error"}) =>
        (submitted' = submitted /\ sent' = sent /\ mpc' = "aborted")

C20_SequentialBatches == []C20_Batches /\ [][C20_Step]_vars

\* main ended normally after several batches, the last one a partial batch.
C20_Witness ==
    /\ mpc = "done"
    /\ Len(submitted) >= 2
    /\ Len(submitted[Len(submitted)]) < batch_size
    /\ sent = main_n

\* ------------------------------------------- termination of the sender
\* C19: every call of send_batch on a non-empty batch terminates, whatever
\* the transport answers, by returning or by raising. The calls still to run
\* hold non-empty, pairwise disjoint parts of the batch (so there are at most
\* as many as entries), a too-large batch of one entry is not split again,
\* the attempts never exceed retry, every state that is not final has a next
\* step, and every step lowers a natural-number measure.
Terminal == spc \in {"done", "fatal", "error"}

RECURSIVE StackWork(_)
StackWork(st) ==
    IF st = <<>> THEN 0 ELSE (2 * Len(Head(st).sub) - 1) + StackWork(Tail(st))

RECURSIVE StackLen(_)
StackLen(st) == IF st = <<>> THEN 0 ELSE Len(Head(st).sub) + StackLen(Tail(st))

AttemptWork == 2 * Len(given) + 3

Measure ==
    IF Terminal THEN 0
    ELSE (retry - attempt) * AttemptWork +
         (CASE spc = "attempt" -> AttemptWork - 1
            [] spc = "send" -> 1 + StackWork(stack)
            [] OTHER -> 1)

C19_Bounded ==
    /\ attempt <= retry
    /\ Len(entries) >= 1
    /\ \A i \in 1..Len(stack) :
        /\ Len(stack[i].sub) >= 1
        /\ \A j \in 1..Len(stack) :
            i # j => SetOf(stack[i].sub) \cap SetOf(stack[j].sub) = {}
    /\ StackLen(stack) <= Len(entries)
    /\ Len(stack) <= Len(entries)
    /\ spc \in {"send", "inspect", "done", "error"} => Len(requests) <= 2 * Len(entries) - 1
    /\ spc = "send" <=> stack # <<>>
    /\ Terminal \/ ENABLED SenderNext

C19_Step ==
    /\ Measure' < Measure
    /\ Measure' >= 0
    /\ (spc = "send" /\ spc' = "send" /\ Len(stack') > Len(stack)) =>
        /\ Len(Head(stack).sub) >= 2
        /\ Len(stack'[1].sub) < Len(Head(stack).sub)
        /\ Len(stack'[2].sub) < Len(Head(stack).sub)
    /\ (spc = "send" /\ Len(Head(stack).sub) = 1) =>
        (Len(stack') < Len(stack) /\ spc' \in {"send", "inspect", "error"})

C19_Terminates == []C19_Bounded /\ [][C19_Step]_vars

\* A batch that was split down to single entries and retried to the limit
\* has ended with the fatal error.
C19_Witness ==
    /\ spc = "fatal"
    /\ Len(given) >= 4
    /\ Len(requests) >= 3
    /\ Len(sleeps) = retry
    /\ Cardinality(accepted) < Len(given)

====
